---- MODULE Spec2Model ----
(***************************************************************************)
(* The secure session subsystem of the document repository: the message   *)
(* envelope (utils/session.py), the session-roles routes of the server    *)
(* (server/app/session/routes.py) and the client's send_session_data and  *)
(* session commands (client/commands.py).                                 *)
(*                                                                         *)
(* Spec      one request is handled at a time (each route is one step).   *)
(* SpecNet   as Spec, and the network changes and reflects messages.      *)
(* SpecConc  two server threads run the routes statement by statement.    *)
(* SpecCmd   the commands outside the roles routes: rep_create_org,       *)
(*           rep_create_session, rep_add_doc, rep_get_doc_file,           *)
(*           rep_get_file.                                                *)
(* SpecEnvelope  the envelope functions on all inputs of the bounds.      *)
(* SpecKey   the client's key derived from a password.                    *)
(* SpecPerm  rep_add_permission and rep_remove_permission.                *)
(***************************************************************************)
EXTENDS Integers, Sequences, FiniteSets, TLC

VARIABLES
    sessions,   \* current_app.sessions: session_id -> session record
    subjects,   \* organization_db: username -> subject state
    now,        \* datetime.now() of the server
    nenc,       \* number of responses the server has encrypted (names its fresh nonce)
    reqs,       \* requests the client has put on the network
    resps,      \* responses the server has put on the network
    cfile,      \* the client's session file
    cpc,        \* the client: "idle", or "sent" inside send_session_data
    ccmd,       \* the command the client is running
    srv,        \* the last request the server handled and what became of it
    cli,        \* the last outcome of send_session_data
    maxAcc,     \* per session, the largest msg_id the server has accepted
    lastAcc,    \* per session, the last request the server accepted
    run,        \* the last run of a command of SpecCmd: its inputs and what became of it
    docs,       \* the documents of the organization: metadata and stored file
    thr         \* the server threads (SpecConc)

vars == <<sessions, subjects, now, nenc, reqs, resps, cfile, cpc, ccmd, srv, cli,
          maxAcc, lastAcc, run, docs, thr>>

----------------------------------------------------------------------------
(* Bounds of the model *)

MaxSends == 2       \* requests the client sends in one run
MaxTime == 1        \* the clock runs from 0 to MaxTime
Delta == 0          \* a session expires when the clock has passed Delta
MaxEnc == 4         \* responses the server encrypts in one run

MaxMsgId == 2 * MaxSends   \* no msg_id of a run is larger

----------------------------------------------------------------------------
(* The world the sessions live in *)

SessionIds == {1, 2}
UnknownSession == CHOOSE n \in 1..(Cardinality(SessionIds) + 1) : n \notin SessionIds
None == "None"

SessionUser(s) == IF s = 1 THEN "alice" ELSE "bob"
SessionKey(s) == IF s = 1 THEN "k1" ELSE "k2"
Organization == "acme"
Usernames == {"alice", "bob"}

\* organization_db as the specification describes it: a role has a state and members
RoleDB ==
    [managers |-> [state |-> "active",    members |-> {"alice"}],
     auditors |-> [state |-> "active",    members |-> {"alice", "bob"}],
     interns  |-> [state |-> "suspended", members |-> {"alice"}],
     finance  |-> [state |-> "active",    members |-> {"bob"}]]

RoleNames == {"managers", "auditors", "interns", "finance", "ghost"}

RoleExists(r) == r \in DOMAIN RoleDB
RoleActive(r) == RoleExists(r) /\ RoleDB[r].state = "active"
RoleMember(u, r) == RoleExists(r) /\ u \in RoleDB[r].members

\* organization_db.check_user_role
check_user_role(org, username, role) ==
    RoleExists(role) /\ RoleActive(role) /\ RoleMember(username, role)

----------------------------------------------------------------------------
(* json.dumps of the associated data, and the AEAD of utils.symmetric *)

Digit == <<"0", "1", "2", "3", "4", "5", "6", "7", "8", "9">>

RECURSIVE IntStr(_)
IntStr(n) == IF n < 10 THEN Digit[n + 1]
             ELSE IntStr(n \div 10) \o Digit[(n % 10) + 1]

\* a dict is a sequence of <<key, value>> pairs in insertion order
RECURSIVE DumpsItems(_)
DumpsItems(d) ==
    IF d = <<>> THEN ""
    ELSE "\"" \o d[1][1] \o "\": " \o IntStr(d[1][2])
         \o (IF Len(d) > 1 THEN ", " ELSE "") \o DumpsItems(Tail(d))

\* a serialisation that does not depend on the contents
JsonDumpsBlind(d) == "{}"

JsonDumps(d) == "{" \o DumpsItems(d) \o "}"

\* a JSON text other than the associated data of an envelope: the value it spells
\* out and the way it is laid out
JsonText(items, style) == [text |-> items, style |-> style]
json_loads(string) == string.text
json_dumps(d) == JsonText(d, "dumps")

HasKey(d, k) == \E i \in 1..Len(d) : d[i][1] = k
Get(d, k) == IF HasKey(d, k)
             THEN d[CHOOSE i \in 1..Len(d) :
                        d[i][1] = k /\ \A j \in (i+1)..Len(d) : d[j][1] # k][2]
             ELSE -1

\* symmetric.encrypt: AES-256-GCM; the ciphertext (with its tag) is bound to the
\* key, the nonce and the associated data
SymEncrypt(key, plaintext, aad, nonce) ==
    [k |-> key, n |-> nonce, a |-> aad, p |-> plaintext, intact |-> TRUE]

\* symmetric.decrypt: the plaintext, or InvalidTag
SymDecryptOk(key, nonce, ciphertext, aad) ==
    /\ ciphertext.intact
    /\ ciphertext.k = key
    /\ ciphertext.n = nonce
    /\ ciphertext.a = aad

Hex(b) == [hex |-> b]
FromHex(h) == h.hex

----------------------------------------------------------------------------
(* utils/session.py *)

encapsulate_session_data(plaintext, session_id, derived_key_hex, msg_id, nonce) ==
    LET associated_data == << <<"msg_id", msg_id>>, <<"session_id", session_id>> >>
        associated_data_bytes == JsonDumps(associated_data)
        plaintext_bytes == json_dumps(plaintext)
        ciphertext == SymEncrypt(FromHex(derived_key_hex), plaintext_bytes,
                                 associated_data_bytes, nonce)
    IN [associated_data |-> associated_data,
        encrypted_data |-> [nonce |-> Hex(nonce), ciphertext |-> Hex(ciphertext)]]

\* no replay check
IsReplayNever(msg_id, stored) == FALSE

\* a replay check that also rejects the next msg_id
IsReplayOffByOne(msg_id, stored) == msg_id <= stored + 1

\* the replay check of decapsulate_session_data
IsReplay(msg_id, stored) == msg_id <= stored

\* the expiry check left out
IsExpiredNever(check_expiration_date, clock, session) == FALSE

\* the expiry check of decapsulate_session_data
IsExpired(check_expiration_date, clock, session) ==
    check_expiration_date /\ clock > session.expiration_date

\* decapsulate_session_data with the replay check moved before the decryption
DecapsulateReplayFirst(data, sess, check_expiration_date, clock) ==
    LET associated_data == data.associated_data
        session_id == Get(associated_data, "session_id")
        msg_id == Get(associated_data, "msg_id")
        nonce_hex == data.encrypted_data.nonce
        ciphertext_hex == data.encrypted_data.ciphertext
        Fail(e) == [err |-> e, plaintext |-> [none |-> TRUE], organization |-> None,
                    username |-> None, msg_id |-> msg_id, session_id |-> session_id,
                    derived_key_hex |-> Hex(None)]
    IN IF session_id \notin DOMAIN sess THEN Fail("not found")
       ELSE LET session == sess[session_id] IN
            IF IsExpired(check_expiration_date, clock, session) THEN Fail("expired")
            ELSE IF IsReplay(msg_id, session.msg_id) THEN Fail("replay")
            ELSE IF ~SymDecryptOk(FromHex(session.derived_key), FromHex(nonce_hex),
                                  FromHex(ciphertext_hex), JsonDumps(associated_data))
                 THEN Fail("InvalidTag")
            ELSE [err |-> "none",
                  plaintext |-> json_loads(FromHex(ciphertext_hex).p),
                  organization |-> session.organization,
                  username |-> session.username,
                  msg_id |-> msg_id,
                  session_id |-> session_id,
                  derived_key_hex |-> session.derived_key]

\* decapsulate_session_data: err is "none" when it returns, else the exception
decapsulate_session_data(data, sess, check_expiration_date, clock) ==
    LET associated_data == data.associated_data
        session_id == Get(associated_data, "session_id")
        msg_id == Get(associated_data, "msg_id")
        nonce_hex == data.encrypted_data.nonce
        ciphertext_hex == data.encrypted_data.ciphertext
        Fail(e) == [err |-> e, plaintext |-> [none |-> TRUE], organization |-> None,
                    username |-> None, msg_id |-> msg_id, session_id |-> session_id,
                    derived_key_hex |-> Hex(None)]
    IN IF session_id \notin DOMAIN sess THEN Fail("not found")
       ELSE LET session == sess[session_id] IN
            IF IsExpired(check_expiration_date, clock, session) THEN Fail("expired")
            ELSE IF ~SymDecryptOk(FromHex(session.derived_key), FromHex(nonce_hex),
                                  FromHex(ciphertext_hex), JsonDumps(associated_data))
                 THEN Fail("InvalidTag")
            ELSE IF IsReplay(msg_id, session.msg_id) THEN Fail("replay")
            ELSE [err |-> "none",
                  plaintext |-> json_loads(FromHex(ciphertext_hex).p),
                  organization |-> session.organization,
                  username |-> session.username,
                  msg_id |-> msg_id,
                  session_id |-> session_id,
                  derived_key_hex |-> session.derived_key]

----------------------------------------------------------------------------
(* server/app/session/routes.py, one route as one step *)

Routes == {"POST", "DELETE", "GET"}

EmptyDict == [k \in {} |-> None]
PGet(p, k) == IF k \in DOMAIN p THEN p[k] ELSE None

InList(x, l) == \E i \in 1..Len(l) : l[i] = x

\* a removal that removes nothing
ListRemoveNothing(l, x) == l

\* list.remove: the first occurrence goes
ListRemove(l, x) ==
    LET i == CHOOSE j \in 1..Len(l) : l[j] = x /\ \A h \in 1..(j-1) : l[h] # x
    IN SubSeq(l, 1, i - 1) \o SubSeq(l, i + 1, Len(l))

\* the stored msg_id advanced by two
UpdateMsgIdTwice(sess, session_id, msg_id) ==
    [sess EXCEPT ![session_id].msg_id = msg_id + 2]

\* the msg_id stored for every session
UpdateMsgIdAll(sess, session_id, msg_id) ==
    [s \in DOMAIN sess |-> [sess[s] EXCEPT !.msg_id = msg_id + 1]]

\* the stored msg_id left as it was
UpdateMsgIdLost(sess, session_id, msg_id) == sess

\* "msg_id += 1; current_app.sessions[session_id]['msg_id'] = msg_id"
UpdateMsgId(sess, session_id, msg_id) ==
    [sess EXCEPT ![session_id].msg_id = msg_id + 1]

\* the state of the subject not looked at
UserInactiveNever(subj, username) == FALSE

\* "if user_data['state'] != 'active'"
UserInactive(subj, username) == subj[username] # "active"

\* the granted role not recorded
AssumedRolesNone(roles, plaintext_role) == roles

\* the roles list of the session once assume_session_role has granted the role
AssumedRoles(roles, plaintext_role) == <<plaintext_role>>

\* the status code that ignores has_role
StatusOfAlwaysOk(has_role) == 200

\* the status code of assume_session_role and drop_session_role
StatusOf(has_role) == IF has_role THEN 200 ELSE 403

\* a denial answered in plain text
ReplyPlainDenial(sess, status, response, dec, msg_id, nonce) ==
    [sessions |-> sess,
     status |-> status,
     body |-> IF status = 403 THEN [text |-> "denied"]
              ELSE encapsulate_session_data(response, dec.session_id,
                                            dec.derived_key_hex, msg_id, nonce),
     verdict |-> "none"]

\* the response carrying a msg_id one too large
ReplyAhead(sess, status, response, dec, msg_id, nonce) ==
    [sessions |-> sess,
     status |-> status,
     body |-> encapsulate_session_data(response, dec.session_id,
                                       dec.derived_key_hex, msg_id + 1, nonce),
     verdict |-> "none"]

\* the response carrying the msg_id of the request
ReplyStale(sess, status, response, dec, msg_id, nonce) ==
    [sessions |-> sess,
     status |-> status,
     body |-> encapsulate_session_data(response, dec.session_id,
                                       dec.derived_key_hex, dec.msg_id, nonce),
     verdict |-> "none"]

\* "data = encapsulate_session_data(response, session_id, derived_key_hex, msg_id)"
Reply(sess, status, response, dec, msg_id, nonce) ==
    [sessions |-> sess,
     status |-> status,
     body |-> encapsulate_session_data(response, dec.session_id,
                                       dec.derived_key_hex, msg_id, nonce),
     verdict |-> "none"]

\* the exception of decapsulate_session_data leaves the route: status 499, plain text
Abort(sess, dec) ==
    [sessions |-> sess, status |-> 499, body |-> [text |-> dec.err], verdict |-> dec.err]

\* assume_session_role recording the role before it has checked it
AssumeBeforeCheck(data, sess, subj, clock, nonce) ==
    LET dec == decapsulate_session_data(data, sess, TRUE, clock) IN
    IF dec.err # "none" THEN Abort(sess, dec)
    ELSE
    LET msg_id == dec.msg_id + 1
        plaintext_role == PGet(dec.plaintext, "role")
        sess1 == [UpdateMsgId(sess, dec.session_id, dec.msg_id)
                     EXCEPT ![dec.session_id].roles = AssumedRoles(@, plaintext_role)]
    IN IF UserInactive(subj, dec.username)
       THEN Reply(sess1, 403, [error |-> "User is not active"], dec, msg_id, nonce)
       ELSE
       LET has_role == check_user_role(dec.organization, dec.username, plaintext_role)
       IN Reply(sess1, StatusOf(has_role),
                IF has_role THEN [state |-> "Role assumed successfully"]
                ELSE [error |-> "User does not have the role in the organization"],
                dec, msg_id, nonce)

assume_session_role(data, sess, subj, clock, nonce) ==
    LET dec == decapsulate_session_data(data, sess, TRUE, clock) IN
    IF dec.err # "none" THEN Abort(sess, dec)
    ELSE
    LET msg_id == dec.msg_id + 1
        sess1 == UpdateMsgId(sess, dec.session_id, dec.msg_id)
    IN IF UserInactive(subj, dec.username)
       THEN Reply(sess1, 403, [error |-> "User is not active"], dec, msg_id, nonce)
       ELSE
       LET plaintext_role == PGet(dec.plaintext, "role")
           has_role == check_user_role(dec.organization, dec.username, plaintext_role)
       IN IF has_role = FALSE
          THEN Reply(sess1, StatusOf(has_role),
                     [error |-> "User does not have the role in the organization"],
                     dec, msg_id, nonce)
          ELSE Reply([sess1 EXCEPT ![dec.session_id].roles =
                                       AssumedRoles(@, plaintext_role)],
                     StatusOf(has_role), [state |-> "Role \"" \o plaintext_role \o "\" assumed successfully"],
                     dec, msg_id, nonce)

drop_session_role(data, sess, subj, clock, nonce) ==
    LET dec == decapsulate_session_data(data, sess, TRUE, clock) IN
    IF dec.err # "none" THEN Abort(sess, dec)
    ELSE
    LET msg_id == dec.msg_id + 1
        sess1 == UpdateMsgId(sess, dec.session_id, dec.msg_id)
    IN IF UserInactive(subj, dec.username)
       THEN Reply(sess1, 403, [error |-> "User is not active"], dec, msg_id, nonce)
       ELSE
       LET plaintext_role == PGet(dec.plaintext, "role")
           has_role == InList(plaintext_role, sess1[dec.session_id].roles)
       IN IF has_role = FALSE
          THEN Reply(sess1, StatusOf(has_role),
                     [error |-> "User does not have the role in the organization"],
                     dec, msg_id, nonce)
          ELSE Reply([sess1 EXCEPT ![dec.session_id].roles =
                                       ListRemove(@, plaintext_role)],
                     StatusOf(has_role), [state |-> "Role \"" \o plaintext_role \o "\" dropped successfully"],
                     dec, msg_id, nonce)

list_session_roles(data, sess, subj, clock, nonce) ==
    LET dec == decapsulate_session_data(data, sess, TRUE, clock) IN
    IF dec.err # "none" THEN Abort(sess, dec)
    ELSE
    LET msg_id == dec.msg_id + 1
        sess1 == UpdateMsgId(sess, dec.session_id, dec.msg_id)
    IN IF UserInactive(subj, dec.username)
       THEN Reply(sess1, 403, [error |-> "User is not active"], dec, msg_id, nonce)
       ELSE Reply(sess1, 200, [roles |-> sess1[dec.session_id].roles],
                  dec, msg_id, nonce)

\* Flask's dispatch on the method of /api/v1/sessions/roles
Dispatch(route, data, sess, subj, clock, nonce) ==
    CASE route = "POST"   -> assume_session_role(data, sess, subj, clock, nonce)
      [] route = "DELETE" -> drop_session_role(data, sess, subj, clock, nonce)
      [] route = "GET"    -> list_session_roles(data, sess, subj, clock, nonce)

----------------------------------------------------------------------------
(* The network keeps every message. It delivers any of them at any time, to   *)
(* either side; under SpecNet it may also change any field of an envelope.    *)

AssocData(m, s) == << <<"msg_id", m>>, <<"session_id", s>> >>

\* the envelope e with one part of it changed, by the part that was changed
Tampered(e) ==
    LET m == Get(e.associated_data, "msg_id")
        s == Get(e.associated_data, "session_id")
    IN    {[kind |-> "msg_id", data |-> [e EXCEPT !.associated_data = AssocData(x, s)]]
              : x \in (0..MaxMsgId) \ {m}}
     \cup {[kind |-> "session_id", data |-> [e EXCEPT !.associated_data = AssocData(m, x)]]
              : x \in (SessionIds \cup {UnknownSession}) \ {s}}
     \cup {[kind |-> "key_order",
            data |-> [e EXCEPT !.associated_data = << <<"session_id", s>>, <<"msg_id", m>> >>]]}
     \cup {[kind |-> "nonce",
            data |-> [e EXCEPT !.encrypted_data.nonce = Hex(FromHex(@) + 1)]]}
     \cup {[kind |-> "ciphertext",
            data |-> [e EXCEPT !.encrypted_data.ciphertext =
                                   Hex([FromHex(@) EXCEPT !.intact = FALSE])]]}

\* a request as sent: also again, also late, in any order
ToServer == {[kind |-> "sent", route |-> q.route, data |-> q.data] : q \in reqs}

\* a response of the server sent back to it as a request
ToServerReflected ==
    {[kind |-> "reflected", route |-> "GET", data |-> r.body] : r \in resps}

\* a request changed on the way, or a response sent back to the server
ToServerForged ==
         UNION {{[kind |-> t.kind, route |-> q.route, data |-> t.data]
                    : t \in Tampered(q.data)} : q \in reqs}
    \cup ToServerReflected

\* the answer to a request: a 499, or a response as sent (also an old one)
ToClient ==
         {[kind |-> "sent", status |-> 499, body |-> [text |-> "error"]]}
    \cup {[kind |-> "sent", status |-> r.status, body |-> r.body] : r \in resps}

\* a response changed on the way (its envelope, or its status line: 200 for 403
\* and 403 for 200), or the client's own request sent back
ToClientForged ==
         UNION {{[kind |-> t.kind, status |-> r.status, body |-> t.data]
                    : t \in Tampered(r.body)} : r \in resps}
    \cup {[kind |-> "status", status |-> 603 - r.status, body |-> r.body] : r \in resps}
    \cup {[kind |-> "reflected", status |-> 200, body |-> q.data] : q \in reqs}

----------------------------------------------------------------------------
(* State *)

Threads == {1, 2}
IdleThread == [pc |-> "idle", last |-> 0]

NoSrv == [handled |-> FALSE]
NoCli == [done |-> FALSE]
NoCmd == [route |-> None, role |-> None, msg_id |-> 0]
NoAcc == [route |-> None, role |-> None, status |-> 0]
NoRun == [done |-> FALSE]
DocNames == {"d1"}
NoDoc == [exists |-> FALSE]
NoDocs == [d \in DocNames |-> NoDoc]

Init ==
    /\ sessions = [s \in SessionIds |->
                      [organization |-> Organization,
                       username |-> SessionUser(s),
                       derived_key |-> Hex(SessionKey(s)),
                       msg_id |-> 0,
                       expiration_date |-> Delta,
                       roles |-> <<>>]]
    /\ subjects = [u \in Usernames |-> "active"]
    /\ now = 0
    /\ nenc = 0
    /\ reqs = {}
    /\ resps = {}
    /\ cfile = [session_id |-> 1, organization |-> Organization,
                username |-> SessionUser(1), derived_key |-> Hex(SessionKey(1)),
                msg_id |-> 0, roles |-> <<>>]
    /\ cpc = "idle"
    /\ ccmd = NoCmd
    /\ srv = NoSrv
    /\ cli = NoCli
    /\ maxAcc = [s \in SessionIds |-> 0]
    /\ lastAcc = [s \in SessionIds |-> NoAcc]
    /\ run = NoRun
    /\ docs = NoDocs
    /\ thr = [t \in Threads |-> IdleThread]

\* nothing else moves between a step of the server or the client and its return
Quiet == ~srv.handled /\ ~cli.done

----------------------------------------------------------------------------
(* The server, one request at a time *)

Accepted(res) == res.verdict = "none"

Max(a, b) == IF a >= b THEN a ELSE b

\* what the server is seen to have done with the request m
Observe(m, res) ==
    [handled |-> TRUE, kind |-> m.kind, route |-> m.route,
     msg_id |-> Get(m.data.associated_data, "msg_id"),
     session_id |-> Get(m.data.associated_data, "session_id"),
     role |-> PGet(json_loads(FromHex(m.data.encrypted_data.ciphertext).p), "role"),
     verdict |-> res.verdict, status |-> res.status, body |-> res.body,
     pre |-> sessions, preAcc |-> maxAcc, preLast |-> lastAcc]

\* the route runs on the request m
Serve(m) ==
    LET res == Dispatch(m.route, m.data, sessions, subjects, now, 2 * (nenc + 1))
        sid == Get(m.data.associated_data, "session_id")
    IN /\ Quiet
       /\ Accepted(res) => nenc < MaxEnc
       /\ sessions' = res.sessions
       /\ nenc' = IF Accepted(res) THEN nenc + 1 ELSE nenc
       /\ srv' = Observe(m, res)
       /\ maxAcc' = IF Accepted(res)
                    THEN [maxAcc EXCEPT ![sid] = Max(@, Get(m.data.associated_data, "msg_id"))]
                    ELSE maxAcc
       /\ lastAcc' = IF Accepted(res)
                     THEN [lastAcc EXCEPT ![sid] =
                              [route |-> m.route,
                               role |-> PGet(json_loads(FromHex(m.data.encrypted_data.ciphertext).p), "role"),
                               status |-> res.status]]
                     ELSE lastAcc
       /\ UNCHANGED <<subjects, now, reqs, resps, cfile, cpc, ccmd, cli, thr, run, docs>>

\* the response leaves the server (a 499 carries nothing the network could not make)
ServerReturn ==
    /\ srv.handled
    /\ resps' = IF srv.status = 499 THEN resps
                ELSE resps \cup {[status |-> srv.status, body |-> srv.body]}
    /\ srv' = NoSrv
    /\ UNCHANGED <<sessions, subjects, now, nenc, reqs, cfile, cpc, ccmd, cli, maxAcc, lastAcc, run, docs, thr>>

----------------------------------------------------------------------------
(* The client: utils/session.py send_session_data under the commands          *)
(* rep_assume_role, rep_drop_role and rep_list_roles of client/commands.py     *)

\* the plaintext of the command
CommandPlaintext(route, role) == IF route = "GET" THEN EmptyDict ELSE [role |-> role]

\* the msg_id of the file sent again
NextMsgIdSame(file_msg_id) == file_msg_id

\* "msg_id = session['msg_id'] + 1"
NextMsgId(file_msg_id) == file_msg_id + 1

\* send_session_data up to the request: the file is advanced, then the request leaves
ClientSend(route, role) ==
    /\ Quiet
    /\ cpc = "idle"
    /\ Cardinality(reqs) < MaxSends
    /\ LET msg_id == NextMsgId(cfile.msg_id)
           data == encapsulate_session_data(CommandPlaintext(route, role),
                       cfile.session_id, cfile.derived_key, msg_id, 2 * msg_id + 1)
       IN /\ cfile' = [cfile EXCEPT !.msg_id = msg_id]
          /\ reqs' = reqs \cup {[route |-> route, data |-> data]}
          /\ ccmd' = [route |-> route, role |-> role, msg_id |-> msg_id]
    /\ cpc' = "sent"
    /\ UNCHANGED <<sessions, subjects, now, nenc, resps, srv, cli, maxAcc, lastAcc, run, docs, thr>>

\* the check of the response in send_session_data: "none" if it is accepted,
\* else the exception raised
ResponseVerdict(status, body, session) ==
    IF status = 499 THEN "499"
    ELSE IF "associated_data" \notin DOMAIN body THEN "malformed"
    ELSE LET sess == (session.session_id :>
                         [msg_id |-> session.msg_id,
                          organization |-> session.organization,
                          derived_key |-> session.derived_key,
                          username |-> session.username])
             dec == decapsulate_session_data(body, sess, FALSE, 0)
         IN IF dec.err # "none" THEN dec.err
            ELSE IF dec.msg_id <= session.msg_id THEN "replay"
            ELSE "none"

\* the file written before the response is checked
FileMsgIdUnchecked(verdict, body, file_msg_id) ==
    IF "associated_data" \in DOMAIN body
    THEN Get(body.associated_data, "msg_id") ELSE file_msg_id

\* the msg_id of the session file when send_session_data is left
FileMsgIdAfter(verdict, body, file_msg_id) ==
    IF verdict = "none" THEN Get(body.associated_data, "msg_id") ELSE file_msg_id

\* the roles of the session file after the command has returned
RolesAfter(route, role, roles) ==
    CASE route = "POST"   -> IF InList(role, roles) THEN roles ELSE Append(roles, role)
      [] route = "DELETE" -> IF InList(role, roles) THEN ListRemove(roles, role) ELSE roles
      [] route = "GET"    -> roles

\* the rest of send_session_data and of the command, on the response r
ClientReceive(r) ==
    /\ Quiet
    /\ cpc = "sent"
    /\ LET v == ResponseVerdict(r.status, r.body, cfile)
           got == FileMsgIdAfter(v, r.body, cfile.msg_id)
           returned == v = "none" /\ r.status = 200
           enveloped == "associated_data" \in DOMAIN r.body
       IN /\ cfile' = [cfile EXCEPT !.msg_id = got,
                                    !.roles = IF returned
                                              THEN RolesAfter(ccmd.route, ccmd.role, @)
                                              ELSE @]
          /\ cli' = [done |-> TRUE, kind |-> r.kind, verdict |-> v, status |-> r.status,
                     sent |-> ccmd.msg_id, before |-> cfile.msg_id,
                     returned |-> returned,
                     resp_id |-> IF enveloped
                                 THEN Get(r.body.associated_data, "msg_id") ELSE -1]
    /\ cpc' = "idle"
    /\ UNCHANGED <<sessions, subjects, now, nenc, reqs, resps, ccmd, srv, maxAcc, lastAcc, run, docs, thr>>

\* no response arrives: requests raises, the command ends
ClientNoResponse ==
    /\ Quiet
    /\ cpc = "sent"
    /\ cpc' = "idle"
    /\ cli' = [done |-> TRUE, kind |-> "lost", verdict |-> "connection", status |-> 0,
               sent |-> ccmd.msg_id, before |-> cfile.msg_id,
               returned |-> FALSE, resp_id |-> -1]
    /\ UNCHANGED <<sessions, subjects, now, nenc, reqs, resps, cfile, ccmd, srv,
                   maxAcc, lastAcc, run, docs, thr>>

\* the command's process ends
ClientExit ==
    /\ cli.done
    /\ cli' = NoCli
    /\ ccmd' = NoCmd
    /\ UNCHANGED <<sessions, subjects, now, nenc, reqs, resps, cfile, cpc, srv,
                   maxAcc, lastAcc, run, docs, thr>>

\* the commands a user types
Commands ==
         {[route |-> "POST", role |-> r] : r \in RoleNames}
    \cup {[route |-> "DELETE", role |-> r] : r \in {"managers", "auditors"}}
    \cup {[route |-> "GET", role |-> None]}

----------------------------------------------------------------------------
(* The environment: time passes; an administrator suspends and reactivates    *)
(* the subject of the client's session                                         *)

Tick ==
    /\ Quiet
    /\ now < MaxTime
    /\ now' = now + 1
    /\ UNCHANGED <<sessions, subjects, nenc, reqs, resps, cfile, cpc, ccmd, srv, cli,
                   maxAcc, lastAcc, run, docs, thr>>

SetSubjectState(u, st) ==
    /\ Quiet
    /\ subjects[u] # st
    /\ subjects' = [subjects EXCEPT ![u] = st]
    /\ UNCHANGED <<sessions, now, nenc, reqs, resps, cfile, cpc, ccmd, srv, cli,
                   maxAcc, lastAcc, run, docs, thr>>

----------------------------------------------------------------------------
(* Spec: the server handles one request at a time; the network loses, delays, *)
(* reorders and repeats messages                                              *)

Next ==
    \/ \E m \in ToServer : Serve(m)
    \/ ServerReturn
    \/ \E c \in Commands : ClientSend(c.route, c.role)
    \/ \E r \in ToClient : ClientReceive(r)
    \/ ClientNoResponse
    \/ ClientExit
    \/ Tick
    \/ \E st \in {"active", "suspended"} : SetSubjectState(cfile.username, st)

Spec == Init /\ [][Next]_vars

(* SpecNet: the network also changes and reflects messages *)

NetCommands ==
    {[route |-> "POST", role |-> "managers"], [route |-> "DELETE", role |-> "managers"],
     [route |-> "GET", role |-> None]}

NextNet ==
    \/ \E m \in ToServer \cup ToServerForged : Serve(m)
    \/ ServerReturn
    \/ \E c \in NetCommands : ClientSend(c.route, c.role)
    \/ \E r \in ToClient \cup ToClientForged : ClientReceive(r)
    \/ ClientNoResponse
    \/ ClientExit
    \/ Tick

SpecNet == Init /\ [][NextNet]_vars

----------------------------------------------------------------------------
(* SpecConc: the routes run in two server threads, statement by statement.   *)
(* A thread keeps the locals of its route; nothing is locked.                 *)

Busy(t) == thr[t].pc # "idle"

\* the response of thread t leaves the server; the thread takes the next request
Respond(t, status, response) ==
    LET d == thr[t].dec IN
    /\ nenc < MaxEnc
    /\ nenc' = nenc + 1
    /\ resps' = resps \cup
           {[status |-> status,
             body |-> Reply(sessions, status, response, d, d.msg_id + 1,
                            2 * (nenc + 1)).body]}
    /\ thr' = [thr EXCEPT ![t] = IdleThread]

\* "... = decapsulate_session_data(request.get_json(), current_app.sessions)"
ThreadDecapsulate(t, m) ==
    /\ ~cli.done
    /\ ~Busy(t)
    /\ LET dec == decapsulate_session_data(m.data, sessions, TRUE, now)
       IN thr' = [thr EXCEPT ![t] =
                     IF dec.err # "none"
                     THEN IdleThread
                     ELSE [pc |-> "update", route |-> m.route, dec |-> dec,
                           kind |-> m.kind]]
    /\ UNCHANGED <<sessions, subjects, now, nenc, reqs, resps, cfile, cpc, ccmd, srv,
                   cli, maxAcc, lastAcc, run, docs>>

\* "msg_id += 1; current_app.sessions[session_id]['msg_id'] = msg_id"
ThreadUpdateMsgId(t) ==
    /\ ~cli.done
    /\ thr[t].pc = "update"
    /\ sessions' = UpdateMsgId(sessions, thr[t].dec.session_id, thr[t].dec.msg_id)
    /\ thr' = [thr EXCEPT ![t].pc = "active"]
    /\ UNCHANGED <<subjects, now, nenc, reqs, resps, cfile, cpc, ccmd, srv, cli, maxAcc, lastAcc, run, docs>>

\* the check of the subject's state
ThreadCheckActive(t) ==
    /\ ~cli.done
    /\ thr[t].pc = "active"
    /\ IF UserInactive(subjects, thr[t].dec.username)
       THEN Respond(t, 403, [error |-> "User is not active"])
       ELSE /\ thr' = [thr EXCEPT ![t].pc = "logic"]
            /\ UNCHANGED <<nenc, resps>>
    /\ UNCHANGED <<sessions, subjects, now, reqs, cfile, cpc, ccmd, srv, cli, maxAcc, lastAcc, run, docs>>

\* the logic of assume_session_role, and its response
ThreadAssume(t) ==
    /\ ~cli.done
    /\ thr[t].pc = "logic" /\ thr[t].route = "POST"
    /\ LET d == thr[t].dec
           plaintext_role == PGet(d.plaintext, "role")
           has_role == check_user_role(d.organization, d.username, plaintext_role)
       IN IF has_role = FALSE
          THEN /\ Respond(t, StatusOf(has_role),
                      [error |-> "User does not have the role in the organization"])
               /\ UNCHANGED sessions
          ELSE /\ sessions' = [sessions EXCEPT ![d.session_id].roles =
                                                   AssumedRoles(@, plaintext_role)]
               /\ Respond(t, StatusOf(has_role),
                      [state |-> "Role \"" \o plaintext_role \o "\" assumed successfully"])
    /\ UNCHANGED <<subjects, now, reqs, cfile, cpc, ccmd, srv, cli, maxAcc, lastAcc, run, docs>>

\* "has_role = plaintext_role in current_app.sessions[session_id].get('roles')"
ThreadDropTest(t) ==
    /\ ~cli.done
    /\ thr[t].pc = "logic" /\ thr[t].route = "DELETE"
    /\ LET d == thr[t].dec
           plaintext_role == PGet(d.plaintext, "role")
           has_role == InList(plaintext_role, sessions[d.session_id].roles)
       IN IF has_role = FALSE
          THEN Respond(t, StatusOf(has_role),
                   [error |-> "User does not have the role in the organization"])
          ELSE /\ thr' = [thr EXCEPT ![t].pc = "remove"]
               /\ UNCHANGED <<nenc, resps>>
    /\ UNCHANGED <<sessions, subjects, now, reqs, cfile, cpc, ccmd, srv, cli, maxAcc, lastAcc, run, docs>>

\* "current_app.sessions[session_id]['roles'].remove(plaintext_role)": a ValueError
\* when the role is no longer in the list, which the route does not catch (500)
ThreadDropRemove(t) ==
    /\ ~cli.done
    /\ thr[t].pc = "remove"
    /\ LET d == thr[t].dec
           plaintext_role == PGet(d.plaintext, "role")
       IN IF InList(plaintext_role, sessions[d.session_id].roles)
          THEN /\ sessions' = [sessions EXCEPT ![d.session_id].roles =
                                                   ListRemove(@, plaintext_role)]
               /\ Respond(t, StatusOf(TRUE),
                      [state |-> "Role \"" \o plaintext_role \o "\" dropped successfully"])
          ELSE /\ thr' = [thr EXCEPT ![t] = [pc |-> "idle", last |-> 500]]
               /\ UNCHANGED <<sessions, nenc, resps>>
    /\ UNCHANGED <<subjects, now, reqs, cfile, cpc, ccmd, srv, cli, maxAcc, lastAcc, run, docs>>

\* the logic of list_session_roles, and its response
ThreadList(t) ==
    /\ ~cli.done
    /\ thr[t].pc = "logic" /\ thr[t].route = "GET"
    /\ Respond(t, 200, [roles |-> sessions[thr[t].dec.session_id].roles])
    /\ UNCHANGED <<sessions, subjects, now, reqs, cfile, cpc, ccmd, srv, cli, maxAcc, lastAcc, run, docs>>

NextConc ==
    \/ \E t \in Threads, m \in ToServer \cup ToServerReflected : ThreadDecapsulate(t, m)
    \/ \E t \in Threads : ThreadUpdateMsgId(t)
    \/ \E t \in Threads : ThreadCheckActive(t)
    \/ \E t \in Threads : ThreadAssume(t)
    \/ \E t \in Threads : ThreadDropTest(t)
    \/ \E t \in Threads : ThreadDropRemove(t)
    \/ \E t \in Threads : ThreadList(t)
    \/ \E c \in NetCommands : ClientSend(c.route, c.role)
    \/ \E r \in ToClient : ClientReceive(r)
    \/ ClientNoResponse
    \/ ClientExit
    \/ \E st \in {"active", "suspended"} : SetSubjectState(cfile.username, st)

SpecConc == Init /\ [][NextConc]_vars

----------------------------------------------------------------------------
(* Claims *)

SrvKnown == srv.handled /\ srv.session_id \in SessionIds
SrvAccepted == srv.handled /\ srv.verdict = "none"
SrvExpired == now > srv.pre[srv.session_id].expiration_date
TamperKinds == {"msg_id", "session_id", "key_order", "nonce", "ciphertext"}

\* a request arrives on a session that has already accepted a request with a
\* msg_id at least as large
Resend ==
    /\ SrvKnown
    /\ srv.preAcc[srv.session_id] >= 1
    /\ srv.msg_id <= srv.preAcc[srv.session_id]

\* C1 as stated: every request that carries a msg_id the session has already
\* accepted, or a smaller one, is rejected as a replay
C1_RejectedAsReplay ==
    Resend => srv.verdict = "replay" /\ sessions = srv.pre

\* C1, amended: such a request is rejected by decapsulate_session_data and no route
\* logic runs for it (the registry is unchanged, the answer is 499); the rejection
\* is a replay whenever the session has not expired and the envelope is one a
\* holder of the key made (a resend of a request, a response sent back)
C1_ReplayImmunity ==
    Resend =>
        /\ srv.verdict \in {"replay", "expired", "InvalidTag"}
        /\ srv.status = 499
        /\ sessions = srv.pre
        /\ (srv.kind \in {"sent", "reflected"} /\ ~SrvExpired) => srv.verdict = "replay"

C1_Witness ==
    Resend /\ srv.kind = "sent" /\ srv.verdict = "replay"
           /\ srv.msg_id = srv.preAcc[srv.session_id]

\* C4: a request on a registered session that arrives after the session's
\* expiration is rejected as expired, whatever its msg_id, nonce and ciphertext
\* and whatever the route
C4_ExpiryHonored ==
    (SrvKnown /\ SrvExpired) =>
        /\ srv.verdict = "expired"
        /\ srv.status = 499
        /\ sessions = srv.pre

C4_Witness ==
    /\ SrvKnown /\ SrvExpired
    /\ srv.kind = "sent" /\ srv.route = "GET"
    /\ srv.msg_id > srv.pre[srv.session_id].msg_id
    /\ srv.verdict = "expired"

C6_ResponseMsgId ==
    SrvAccepted =>
        /\ sessions[srv.session_id].msg_id = srv.msg_id + 1
        /\ Get(srv.body.associated_data, "msg_id") = srv.msg_id + 1
        /\ Get(srv.body.associated_data, "session_id") = srv.session_id
        /\ srv.route \in Routes

C6_Witness ==
    SrvAccepted /\ srv.route = "GET" /\ srv.status = 200 /\ srv.msg_id = 3

\* C7: the client accepts a response only if it is an envelope made under the
\* session key and its msg_id is greater than the msg_id of the request just sent;
\* otherwise send_session_data raises and the file keeps the msg_id of the request
C7_ClientAccepts ==
    cli.done =>
        /\ cli.verdict = "none" =>
              /\ cli.kind \in {"sent", "status"}
              /\ cli.resp_id > cli.sent
              /\ cfile.msg_id = cli.resp_id
        /\ cli.verdict # "none" => cfile.msg_id = cli.sent
        /\ (cli.kind = "reflected" \/ (cli.resp_id >= 0 /\ cli.resp_id <= cli.sent))
              => cli.verdict # "none"

C7_Witness ==
    cli.done /\ cli.kind = "reflected" /\ cli.resp_id = cli.sent /\ cli.verdict = "replay"

\* C8: every send carries a msg_id greater than the file's and than every msg_id
\* sent before, the file holds it from then on, and the msg_id of the file never
\* goes down, whatever becomes of the request
C8_ClientMsgIdAdvances ==
    [][ /\ cfile'.msg_id >= cfile.msg_id
        /\ (cpc = "idle" /\ cpc' = "sent") =>
              /\ ccmd'.msg_id > cfile.msg_id
              /\ cfile'.msg_id = ccmd'.msg_id
              /\ \A q \in reqs : Get(q.data.associated_data, "msg_id") < ccmd'.msg_id
              /\ \E q \in reqs' \ reqs : Get(q.data.associated_data, "msg_id") = ccmd'.msg_id
      ]_vars

C8_Witness ==
    /\ cpc = "sent" /\ Cardinality(reqs) = 2 /\ ccmd.msg_id = 3 /\ cfile.msg_id = 3

C10_AssumeIff ==
    (SrvAccepted /\ srv.route = "POST"
        /\ subjects[sessions[srv.session_id].username] = "active") =>
        LET u == sessions[srv.session_id].username
            allowed == RoleExists(srv.role) /\ RoleActive(srv.role) /\ RoleMember(u, srv.role)
        IN /\ srv.status = (IF allowed THEN 200 ELSE 403)
           /\ allowed => InList(srv.role, sessions[srv.session_id].roles)
           /\ ~allowed => sessions[srv.session_id].roles = srv.pre[srv.session_id].roles

C10_Witness ==
    /\ SrvAccepted /\ srv.route = "POST" /\ srv.role = "interns" /\ srv.status = 403
    /\ subjects[sessions[srv.session_id].username] = "active"

\* two threads are past decapsulate_session_data with requests of one session
\* that carry the same msg_id
BothAccepted(t1, t2) ==
    /\ t1 # t2 /\ Busy(t1) /\ Busy(t2)
    /\ thr[t1].dec.session_id = thr[t2].dec.session_id
    /\ thr[t1].dec.msg_id = thr[t2].dec.msg_id

\* C2: of two requests of one session that carry the same msg_id and are handled
\* at the same time, at most one passes the replay check and is handled
C2_ExactlyOneAdvances ==
    \A t1 \in Threads, t2 \in Threads : ~BothAccepted(t1, t2)

\* C3: the msg_id stored for a session never decreases
C3_MsgIdNeverDecreases ==
    [][\A s \in SessionIds : sessions'[s].msg_id >= sessions[s].msg_id]_vars

----------------------------------------------------------------------------
(* Session roles *)

SrvUser == srv.pre[srv.session_id].username
SrvRolesBefore == srv.pre[srv.session_id].roles
SrvRolesAfter == sessions[srv.session_id].roles
SrvPlaintext == json_loads(FromHex(srv.body.encrypted_data.ciphertext).p)

\* the request the server has just accepted follows, with no accepted request of
\* its session in between, an assume_role that was answered 200
AfterAssume ==
    /\ SrvAccepted
    /\ srv.preLast[srv.session_id].route = "POST"
    /\ srv.preLast[srv.session_id].status = 200

\* C11: a list_session_roles that is answered right after a successful
\* assume_role(r) on the session returns a list that contains r
C11_ListAfterAssume ==
    (AfterAssume /\ srv.route = "GET" /\ srv.status = 200) =>
        /\ "roles" \in DOMAIN SrvPlaintext
        /\ InList(srv.preLast[srv.session_id].role, SrvPlaintext.roles)

C11_Witness ==
    /\ AfterAssume /\ srv.route = "GET" /\ srv.status = 200
    /\ srv.preLast[srv.session_id].role = "auditors"
    /\ SrvPlaintext.roles = <<"auditors">>

\* C12: drop_role(r) on a valid session of an active subject is answered 200 if r
\* is an assumed role of the session, and then r is gone from the list and every
\* other role is kept; it is answered 403 if r is not, and the list is unchanged
C12_DropRole ==
    (SrvAccepted /\ srv.route = "DELETE" /\ subjects[SrvUser] = "active") =>
        IF InList(srv.role, SrvRolesBefore)
        THEN /\ srv.status = 200
             /\ ~InList(srv.role, SrvRolesAfter)
             /\ Len(SrvRolesAfter) = Len(SrvRolesBefore) - 1
             /\ \A i \in 1..Len(SrvRolesBefore) :
                    SrvRolesBefore[i] # srv.role => InList(SrvRolesBefore[i], SrvRolesAfter)
        ELSE /\ srv.status = 403
             /\ SrvRolesAfter = SrvRolesBefore

C12_Witness ==
    /\ SrvAccepted /\ srv.route = "DELETE" /\ subjects[SrvUser] = "active"
    /\ srv.role = "managers" /\ SrvRolesBefore = <<"managers">>
    /\ srv.status = 200 /\ SrvRolesAfter = <<>>

\* C13: a request on an open session whose subject is not active is answered 403
\* "User is not active" on each route, whatever the role asked for; the session's
\* roles are unchanged and the answer carries no role list
C13_InactiveDenied ==
    (SrvAccepted /\ subjects[SrvUser] # "active") =>
        /\ srv.status = 403
        /\ DOMAIN SrvPlaintext = {"error"}
        /\ SrvPlaintext.error = "User is not active"
        /\ SrvRolesAfter = SrvRolesBefore

C13_Witness ==
    /\ SrvAccepted /\ subjects[SrvUser] # "active"
    /\ srv.route = "POST" /\ srv.role = "managers" /\ RoleMember(SrvUser, srv.role)
    /\ srv.status = 403

\* C14: no drop_role ends with an unhandled error, however the handlers of one
\* session interleave
C14_DropNeverFails ==
    \A t \in Threads : ~Busy(t) => thr[t].last # 500

----------------------------------------------------------------------------
(* client/commands.py outside a session: rep_create_org and rep_create_session. *)
(* The server's answer is any answer the network can hand to the client.        *)

\* the key pair of REP_PUB_KEY, and the key pair of somebody else
ServerKey == "server"
Signers == {ServerKey, "mallory"}

\* ECDSA: a signature is bound to the signer and to the bytes signed
Sign(signer, bytes) == [by |-> signer, over |-> bytes]

\* a verification that accepts everything
VerifyAnything(public_key, signature, bytes) == TRUE

\* "self.server_pub_key.verify(bytes.fromhex(signature_hex), ..., ec.ECDSA(hashes.SHA256()))"
Verify(public_key, signature, bytes) ==
    signature.by = public_key /\ signature.over = bytes

HasKeys(d, ks) == \A k \in ks : HasKey(d, k)

\* a command ends by returning (exc is None) or by raising
Returned == None
Raised(e) == e

\* the answer of the server as requests hands it over
Response(status_code, associated_data_string, signature) ==
    [status_code |-> status_code,
     json |-> [associated_data |-> associated_data_string, signature |-> signature]]

OrgFields == <<"organization", "username", "name", "email", "public_key">>

\* the comparison of the echoed fields with one field left out
EchoDiffersButKey(associated_data, sent) ==
    \E i \in 1..(Len(OrgFields) - 1) : Get(associated_data, OrgFields[i]) # sent[i][2]

\* "if organization_received != organization or ... public_key_received != public_key_string"
EchoDiffers(associated_data, sent) ==
    \E i \in 1..Len(OrgFields) : Get(associated_data, OrgFields[i]) # sent[i][2]

\* Auth.rep_create_org on the answer response; sent is the json of the request
rep_create_org(sent, response) ==
    IF response.status_code # 200 THEN Raised("Failed to create organization")
    ELSE LET associated_data == json_loads(response.json.associated_data)
             signature_hex == response.json.signature
         IN IF ~HasKeys(associated_data, {OrgFields[i] : i \in 1..Len(OrgFields)})
            THEN Raised("KeyError")
            ELSE IF EchoDiffers(associated_data, sent)
            THEN Raised("Create organization failed: Invalid organization data")
            ELSE IF ~Verify(ServerKey, FromHex(signature_hex), json_dumps(associated_data))
            THEN Raised("Failed to verify signature")
            ELSE Returned

\* serialization.load_pem_public_key: the key a PEM text holds, None if it holds none
LoadPem(string) ==
    CASE string = "pemSE" -> "se"
      [] string = "pemME" -> "me"
      [] OTHER -> None

\* ECDH and HKDF: both ends derive the same key from the two ephemeral key pairs
Exchange(private_key, peer_public_key) == {private_key, peer_public_key}
HKDFDerive(shared_key) == [hkdf |-> shared_key]

NoFile == [exists |-> FALSE]

\* "f.write(json.dumps({'session_id': session_id, ..., 'msg_id': 0, 'roles': []}))"
SessionFile(old, session_id, organization, username, derived_key_hex) ==
    [session_id |-> session_id, organization |-> organization, username |-> username,
     derived_key |-> derived_key_hex, msg_id |-> 0, roles |-> <<>>]

\* Auth.rep_create_session on the answer response: the exception (None if it
\* returns) and the session file it leaves behind
rep_create_session(organization, username, client_ephemeral_private_key, response, file) ==
    IF response.status_code # 200
    THEN [exc |-> Raised("Failed to create session"), file |-> file]
    ELSE LET associated_data == json_loads(response.json.associated_data)
             signature_hex == response.json.signature
         IN IF ~Verify(ServerKey, FromHex(signature_hex), json_dumps(associated_data))
            THEN [exc |-> Raised("Failed to verify signature"), file |-> file]
            ELSE IF ~HasKey(associated_data, "server_ephemeral_public_key")
            THEN [exc |-> Raised("Failed to create session: KeyError"), file |-> file]
            ELSE LET server_ephemeral_public_key ==
                         LoadPem(Get(associated_data, "server_ephemeral_public_key"))
                 IN IF server_ephemeral_public_key = None
                    THEN [exc |-> Raised("Failed to create session: ValueError"), file |-> file]
                    ELSE IF ~HasKey(associated_data, "session_id")
                    THEN [exc |-> Raised("Failed to create session: KeyError"), file |-> file]
                    ELSE LET shared_key == Exchange(client_ephemeral_private_key,
                                                    server_ephemeral_public_key)
                             derived_key_hex == Hex(HKDFDerive(shared_key))
                             session_id == Get(associated_data, "session_id")
                         IN [exc |-> Returned,
                             file |-> SessionFile(file, session_id, organization, username,
                                                  derived_key_hex)]

\* what rep_create_org sends
OrgSent ==
    << <<"organization", Organization>>, <<"username", "alice">>, <<"name", "Alice">>,
       <<"email", "a@x">>, <<"public_key", "pemA">> >>

\* what comes back as the echo: one of the fields replaced, or one missing
OrgEchoes ==
         {[i \in 1..Len(OrgFields) |->
              <<OrgFields[i], IF i \in D THEN "other" ELSE OrgSent[i][2]>>]
             : D \in {{}} \cup {{i} : i \in 1..Len(OrgFields)}}
    \cup {SubSeq(OrgSent, 1, 3) \o SubSeq(OrgSent, 5, 5)}

\* the answers to rep_create_org: the status, the echo, and a signature of the
\* server or of somebody else over the echo or over what was sent
OrgResponses ==
    UNION {{Response(st, JsonText(e, "dumps"), Hex(Sign(by, JsonText(o, "dumps"))))
               : st \in {200, 409}, by \in Signers, o \in {e, OrgSent}}
              : e \in OrgEchoes}

\* what the server signs when it opens a session
SessionGranted == << <<"session_id", 1>>, <<"server_ephemeral_public_key", "pemSE">> >>

SessionAnswers ==
    {a \o b : a \in {<<>>} \cup {<< <<"session_id", n>> >> : n \in SessionIds},
              b \in {<<>>} \cup {<< <<"server_ephemeral_public_key", k>> >>
                                    : k \in {"pemSE", "garbage"}}}

\* the answers to rep_create_session
SessionStyles(e) == IF e = SessionGranted THEN {"dumps", "compact"} ELSE {"dumps"}

SessionResponses ==
    UNION {UNION {{Response(st, JsonText(e, style), Hex(Sign(by, o)))
                      : st \in {200, 403}, by \in Signers,
                        o \in {JsonText(e, style), JsonText(SessionGranted, "dumps")}}
                     : style \in SessionStyles(e)}
              : e \in SessionAnswers}

\* rep_create_org runs
CreateOrg(response) ==
    /\ ~run.done
    /\ run' = [done |-> TRUE, cmd |-> "create_org", response |-> response,
               exc |-> rep_create_org(OrgSent, response)]
    /\ UNCHANGED <<sessions, subjects, now, nenc, reqs, resps, cfile, cpc, ccmd, srv, cli,
                   maxAcc, lastAcc, docs, thr>>

\* rep_create_session runs
CreateSession(response) ==
    /\ ~run.done
    /\ LET r == rep_create_session(Organization, "alice", "ce", response, cfile)
       IN /\ cfile' = r.file
          /\ run' = [done |-> TRUE, cmd |-> "create_session", response |-> response,
                     exc |-> r.exc, before |-> cfile]
    /\ UNCHANGED <<sessions, subjects, now, nenc, reqs, resps, cpc, ccmd, srv, cli,
                   maxAcc, lastAcc, docs, thr>>

\* the command's process ends
CmdExit ==
    /\ run.done
    /\ run' = NoRun
    /\ UNCHANGED <<sessions, subjects, now, nenc, reqs, resps, cfile, cpc, ccmd, srv, cli,
                   maxAcc, lastAcc, docs, thr>>

----------------------------------------------------------------------------
(* client/commands.py: rep_add_doc, rep_get_file and rep_get_doc_file.        *)
(* Bytes are sequences; the ciphertext of a file is one element of them.       *)

NonceLen == 12

Plaintexts == {"", "hello", "bye"}

\* hashes.Hash(hashes.SHA256()) ... finalize().hex()
Sha256Hex(bytes) == "sha256(" \o bytes \o ")"

B64Encode(bytes) == [b64 |-> bytes]
B64Decode(string) == string.b64

Min(a, b) == IF a <= b THEN a ELSE b

\* bytes[a-1:b] of Python: no error when the bytes are shorter
Slice(bytes, a, b) == SubSeq(bytes, a, Min(b, Len(bytes)))

\* symmetric.encrypt on a file: the nonce and the ciphertext, as bytes
EncryptFile(key, file_content, nonce) ==
    [nonce |-> nonce, ciphertext |-> <<SymEncrypt(key, file_content, None, nonce)>>]

\* a decryption that does not check the tag
DecryptFileUnchecked(key, nonce, ciphertext) == Len(ciphertext) = 1

\* symmetric.decrypt on the bytes of a file
DecryptFileOk(key, nonce, ciphertext) ==
    /\ Len(nonce) = NonceLen
    /\ Len(ciphertext) = 1
    /\ SymDecryptOk(key, nonce, ciphertext[1], None)

\* Organization.rep_add_doc: the plaintext it hands to send_session_data
rep_add_doc(document_name, file_content, key, nonce) ==
    LET file_handle_hex == Sha256Hex(file_content)
        enc == EncryptFile(key, file_content, nonce)
        encrypted_file == B64Encode(enc.nonce \o enc.ciphertext)
    IN [encryption_file |-> encrypted_file,
        file_handle |-> file_handle_hex,
        name |-> document_name,
        key |-> Hex(key),
        alg |-> "AES-GCM"]

\* the document the server keeps for the plaintext of rep_add_doc
StoredDoc(plaintext) ==
    [exists |-> TRUE, file_handle |-> plaintext.file_handle, key |-> plaintext.key,
     alg |-> plaintext.alg, stored |-> B64Decode(plaintext.encryption_file)]

\* the metadata the server returns for a document
Metadata(doc) == [file_handle |-> doc.file_handle, key |-> doc.key, alg |-> doc.alg]

\* GET /files/: what the server answers for a handle and the bytes it has stored
FileAnswer(file_handle, bytes) ==
    << <<"file_handle", file_handle>>, <<"file_content", B64Encode(bytes)>> >>

\* File.rep_get_file with output=False: the exception (None if it returns) and
\* the file content it returns
rep_get_file(file_handle, response) ==
    IF response.status_code # 200
    THEN [exc |-> Raised("Failed to get file"), file_content |-> <<>>]
    ELSE LET associated_data == json_loads(response.json.associated_data)
             signature_hex == response.json.signature
         IN IF ~HasKeys(associated_data, {"file_handle", "file_content"})
            THEN [exc |-> Raised("KeyError"), file_content |-> <<>>]
            ELSE IF Get(associated_data, "file_handle") # file_handle
            THEN [exc |-> Raised("Get file failed: Invalid file handle"), file_content |-> <<>>]
            ELSE IF ~Verify(ServerKey, FromHex(signature_hex), json_dumps(associated_data))
            THEN [exc |-> Raised("Failed to verify signature"), file_content |-> <<>>]
            ELSE [exc |-> Returned,
                  file_content |-> B64Decode(Get(associated_data, "file_content"))]

NoOutput == [some |-> FALSE]
Output(file_content) == [some |-> TRUE, content |-> file_content]

\* rep_get_file writing the content before it has checked the answer
RepGetFileWriteFirst(file_handle, file, output, response) ==
    LET res == rep_get_file(file_handle, response)
        early == response.status_code = 200
                 /\ HasKeys(json_loads(response.json.associated_data),
                            {"file_handle", "file_content"})
        file_content == B64Decode(Get(json_loads(response.json.associated_data),
                                      "file_content"))
    IN [exc |-> res.exc,
        returned |-> IF res.exc = Returned THEN Output(res.file_content) ELSE NoOutput,
        written |-> IF early /\ output /\ file # None
                    THEN Output(file_content) ELSE NoOutput,
        stdout |-> IF early /\ output /\ file = None
                   THEN Output(file_content) ELSE NoOutput]

\* File.rep_get_file(file_handle, file, output): the exception (None if it
\* returns), the content it returns, and what it writes to the file and to stdout
rep_get_file_output(file_handle, file, output, response) ==
    LET res == rep_get_file(file_handle, response)
    IN IF res.exc # Returned
       THEN [exc |-> res.exc, returned |-> NoOutput, written |-> NoOutput,
             stdout |-> NoOutput]
       ELSE [exc |-> Returned,
             returned |-> Output(res.file_content),
             written |-> IF output /\ file # None
                         THEN Output(res.file_content) ELSE NoOutput,
             stdout |-> IF output /\ file = None
                        THEN Output(res.file_content) ELSE NoOutput]

\* the comparison of the handles left out
HandleDiffersNever(file_handle_verify, file_handle) == FALSE

\* "if file_handle_verify != file_handle"
HandleDiffers(file_handle_verify, file_handle) == file_handle_verify # file_handle

\* the test of the handle left out
NotNever(file_handle) == FALSE

\* "if not file_handle"
Not(file_handle) == file_handle = None \/ file_handle = ""

\* Organization.rep_get_doc_file once rep_get_doc_metadata has returned metadata:
\* the exception (None if it returns), the steps it took and what it wrote
rep_get_doc_file(metadata, response) ==
    LET file_handle == metadata.file_handle IN
    IF Not(file_handle)
    THEN [exc |-> Raised("This document does not have a file_handle (probably deleted)"),
          steps |-> <<"metadata">>, written |-> NoOutput]
    ELSE
    LET got == rep_get_file(file_handle, response) IN
    IF got.exc # Returned
    THEN [exc |-> got.exc, steps |-> <<"metadata", "blob">>, written |-> NoOutput]
    ELSE
    LET encrypted_data == got.file_content
        key == FromHex(metadata.key)
        alg == metadata.alg
        nonce == Slice(encrypted_data, 1, NonceLen)
        ciphertext == Slice(encrypted_data, NonceLen + 1, Len(encrypted_data))
    IN IF alg # "AES-GCM"
       THEN [exc |-> Raised("Failed to decrypt file: Unsupported encryption algorithm"),
             steps |-> <<"metadata", "blob", "decrypt">>, written |-> NoOutput]
       ELSE IF ~DecryptFileOk(key, nonce, ciphertext)
       THEN [exc |-> Raised("Failed to decrypt file: Invalid tag"),
             steps |-> <<"metadata", "blob", "decrypt">>, written |-> NoOutput]
       ELSE LET file_content == ciphertext[1].p
                file_handle_verify == Sha256Hex(file_content)
            IN IF HandleDiffers(file_handle_verify, file_handle)
               THEN [exc |-> Raised("Failed to verify file handle"),
                     steps |-> <<"metadata", "blob", "decrypt", "verify">>,
                     written |-> NoOutput]
               ELSE [exc |-> Returned,
                     steps |-> <<"metadata", "blob", "decrypt", "verify", "output">>,
                     written |-> Output(file_content)]

\* the answers to GET /files/ for a document: the server's own, an error, one
\* somebody else made, and the server's answer for another handle
FileResponses(doc) ==
    LET honest == JsonText(FileAnswer(doc.file_handle, doc.stored), "dumps")
        forged == JsonText(FileAnswer(doc.file_handle, <<>>), "dumps")
        other  == JsonText(FileAnswer(Sha256Hex("other"), doc.stored), "dumps")
    IN {Response(200, honest, Hex(Sign(ServerKey, honest))),
        Response(404, honest, Hex(Sign(ServerKey, honest))),
        Response(200, forged, Hex(Sign("mallory", forged))),
        Response(200, forged, Hex(Sign(ServerKey, honest))),
        Response(200, other, Hex(Sign(ServerKey, other)))}

\* a session file exists and send_session_data has msg_ids left in this run
CanSend == cfile # NoFile /\ cfile.msg_id + 2 <= MaxMsgId

\* the session file after send_session_data: it returned, or it raised
SentFile(ok) ==
    [cfile EXCEPT !.msg_id = IF ok THEN NextMsgId(cfile.msg_id) + 1
                             ELSE NextMsgId(cfile.msg_id)]

\* rep_add_doc runs on a file with the content file_content; the server stores the
\* document if it accepts the request
AddDoc(name, file_content, nonce_byte, ok) ==
    /\ ~run.done
    /\ CanSend
    /\ docs[name] = NoDoc
    /\ LET plaintext == rep_add_doc(name, file_content, "key of " \o name,
                                    [i \in 1..NonceLen |-> nonce_byte])
       IN /\ docs' = IF ok THEN [docs EXCEPT ![name] = StoredDoc(plaintext)] ELSE docs
          /\ run' = [done |-> TRUE, cmd |-> "add_doc", name |-> name,
                     file_content |-> file_content, plaintext |-> plaintext,
                     exc |-> IF ok THEN Returned ELSE Raised("send_session_data")]
    /\ cfile' = SentFile(ok)
    /\ UNCHANGED <<sessions, subjects, now, nenc, reqs, resps, cpc, ccmd, srv, cli,
                   maxAcc, lastAcc, thr>>

\* somebody adds a document without rep_add_doc: the handle of one content, the
\* file of another, or another algorithm
AddDocOther(name, handle_of, file_content, alg) ==
    /\ ~run.done
    /\ docs[name] = NoDoc
    /\ handle_of # file_content \/ alg # "AES-GCM"
    /\ LET plaintext == rep_add_doc(name, file_content, "key of " \o name,
                                    [i \in 1..NonceLen |-> 0])
       IN docs' = [docs EXCEPT ![name] =
                      StoredDoc([plaintext EXCEPT !.file_handle = Sha256Hex(handle_of),
                                                  !.alg = alg])]
    /\ UNCHANGED <<sessions, subjects, now, nenc, reqs, resps, cfile, cpc, ccmd, srv, cli,
                   maxAcc, lastAcc, run, thr>>

\* rep_delete_doc at the server: the handle is cleared, the metadata stays
DeleteDoc(name) ==
    /\ ~run.done
    /\ docs[name] # NoDoc
    /\ docs[name].file_handle # None
    /\ docs' = [docs EXCEPT ![name].file_handle = None]
    /\ UNCHANGED <<sessions, subjects, now, nenc, reqs, resps, cfile, cpc, ccmd, srv, cli,
                   maxAcc, lastAcc, run, thr>>

\* the stored bytes with a part of them changed
TamperedBytes(bytes, kind) ==
    CASE kind = "ciphertext" ->
             [bytes EXCEPT ![Len(bytes)] = [@ EXCEPT !.intact = FALSE]]
      [] kind = "nonce" -> [bytes EXCEPT ![1] = @ + 2]
      [] kind = "truncated" -> SubSeq(bytes, 1, NonceLen)

StoredKinds == {"ciphertext", "nonce", "truncated"}

NonceBytes == {0, 1}

\* the stored file is as it was uploaded
Untouched(bytes) ==
    /\ Len(bytes) = NonceLen + 1
    /\ bytes[1] \in NonceBytes
    /\ bytes[Len(bytes)].intact

\* the stored file of a document is changed in the store
TamperStored(name, kind) ==
    /\ ~run.done
    /\ docs[name] # NoDoc
    /\ Untouched(docs[name].stored)
    /\ docs' = [docs EXCEPT ![name].stored = TamperedBytes(@, kind)]
    /\ UNCHANGED <<sessions, subjects, now, nenc, reqs, resps, cfile, cpc, ccmd, srv, cli,
                   maxAcc, lastAcc, run, thr>>

\* the answers rep_get_doc_file can get from GET /files/
FileResponsesFor(name, ok) ==
    IF ok /\ docs[name] # NoDoc THEN FileResponses(docs[name])
    ELSE {Response(404, JsonText(<<>>, "dumps"), Hex(Sign(ServerKey, JsonText(<<>>, "dumps"))))}

\* rep_get_doc_file runs: rep_get_doc_metadata returns the metadata or raises,
\* then the rest of the command runs on the answer of GET /files/
GetDocFile(name, ok, response) ==
    /\ ~run.done
    /\ CanSend
    /\ ok => docs[name] # NoDoc
    /\ cfile' = SentFile(ok)
    /\ run' = IF ~ok
              THEN [done |-> TRUE, cmd |-> "get_doc_file", name |-> name,
                    exc |-> Raised("send_session_data"), steps |-> <<"metadata">>,
                    written |-> NoOutput, returned |-> FALSE]
              ELSE LET metadata == Metadata(docs[name])
                       res == rep_get_doc_file(metadata, response)
                   IN [done |-> TRUE, cmd |-> "get_doc_file", name |-> name,
                       exc |-> res.exc, steps |-> res.steps, written |-> res.written,
                       returned |-> TRUE, metadata |-> metadata, response |-> response]
    /\ UNCHANGED <<sessions, subjects, now, nenc, reqs, resps, cpc, ccmd, srv, cli,
                   maxAcc, lastAcc, docs, thr>>

\* the handles rep_get_file is called with, and what the blob store may hold
GetFileHandles == {Sha256Hex("hello"), Sha256Hex("bye")}
GetFileStored == [exists |-> TRUE, file_handle |-> Sha256Hex("hello"), stored |-> <<7>>]

\* rep_get_file runs on the answer of GET /files/
GetFile(file_handle, file, output, response) ==
    /\ ~run.done
    /\ LET res == rep_get_file_output(file_handle, file, output, response)
       IN run' = [done |-> TRUE, cmd |-> "get_file", file_handle |-> file_handle,
                  file |-> file, output |-> output, response |-> response,
                  exc |-> res.exc, returned |-> res.returned,
                  written |-> res.written, stdout |-> res.stdout]
    /\ UNCHANGED <<sessions, subjects, now, nenc, reqs, resps, cfile, cpc, ccmd, srv, cli,
                   maxAcc, lastAcc, docs, thr>>

----------------------------------------------------------------------------
(* SpecCmd: the commands run one after the other; documents are added,        *)
(* deleted and changed in the store in between                                 *)

InitCmd ==
    /\ sessions = [s \in SessionIds |->
                      [organization |-> Organization,
                       username |-> SessionUser(s),
                       derived_key |-> Hex(SessionKey(s)),
                       msg_id |-> 0,
                       expiration_date |-> Delta,
                       roles |-> <<>>]]
    /\ subjects = [u \in Usernames |-> "active"]
    /\ now = 0
    /\ nenc = 0
    /\ reqs = {}
    /\ resps = {}
    /\ cfile = NoFile
    /\ cpc = "idle"
    /\ ccmd = NoCmd
    /\ srv = NoSrv
    /\ cli = NoCli
    /\ maxAcc = [s \in SessionIds |-> 0]
    /\ lastAcc = [s \in SessionIds |-> NoAcc]
    /\ run = NoRun
    /\ docs = NoDocs
    /\ thr = [t \in Threads |-> IdleThread]

NextCmd ==
    \/ \E r \in OrgResponses : CreateOrg(r)
    \/ \E r \in SessionResponses : CreateSession(r)
    \/ \E d \in DocNames, p \in Plaintexts, n \in NonceBytes, ok \in BOOLEAN :
           AddDoc(d, p, n, ok)
    \/ \E d \in DocNames, h \in Plaintexts, p \in Plaintexts, alg \in {"AES-GCM", "ChaCha20"} :
           AddDocOther(d, h, p, alg)
    \/ \E d \in DocNames : DeleteDoc(d)
    \/ \E d \in DocNames, k \in StoredKinds : TamperStored(d, k)
    \/ \E d \in DocNames, ok \in BOOLEAN :
           \E r \in FileResponsesFor(d, ok) : GetDocFile(d, ok, r)
    \/ \E h \in GetFileHandles, f \in {None, "out"}, o \in BOOLEAN :
           \E r \in FileResponses(GetFileStored) : GetFile(h, f, o, r)
    \/ CmdExit

SpecCmd == InitCmd /\ [][NextCmd]_vars

----------------------------------------------------------------------------
(* Claims on the commands *)

RunOf(cmd) == run.done /\ run.cmd = cmd
RunData == run.response.json.associated_data.text
RunSignature == FromHex(run.response.json.signature)

\* the answer is a 200 and carries the server's signature over its data
SignedAnswer ==
    /\ run.response.status_code = 200
    /\ RunSignature.by = ServerKey
    /\ RunSignature.over = JsonText(RunData, "dumps")

\* C15: rep_create_session writes the session file only on a 200 whose data carry
\* the server's signature; the file then has msg_id 0, no roles and the session_id
\* of the signed data; when the command raises, the file is as it was
C15_SessionFile ==
    RunOf("create_session") =>
        /\ run.exc # None => cfile = run.before
        /\ cfile # run.before => run.exc = None
        /\ run.exc = None =>
              /\ SignedAnswer
              /\ cfile.msg_id = 0
              /\ cfile.roles = <<>>
              /\ HasKey(RunData, "session_id")
              /\ cfile.session_id = Get(RunData, "session_id")

C15_Witness ==
    /\ RunOf("create_session") /\ run.exc = None
    /\ run.before = NoFile /\ cfile.session_id = 2 /\ cfile.msg_id = 0

\* C16: rep_create_org returns exactly if the answer is a 200, every echoed field
\* is the one sent, and the echo carries the server's signature; else it raises
C16_CreateOrgChecks ==
    RunOf("create_org") =>
        (run.exc = None <=>
            /\ SignedAnswer
            /\ \A i \in 1..Len(OrgFields) :
                   /\ HasKey(RunData, OrgFields[i])
                   /\ Get(RunData, OrgFields[i]) = OrgSent[i][2])

C16_Witness ==
    /\ RunOf("create_org") /\ run.exc # None
    /\ SignedAnswer
    /\ HasKey(RunData, "public_key") /\ Get(RunData, "public_key") # "pemA"

StepOrder == <<"metadata", "blob", "decrypt", "verify", "output">>

\* C17: rep_get_doc_file takes its steps in the order metadata, blob, decrypt,
\* verify, output; it writes only after all of them and only a content whose
\* SHA-256 is the file_handle of the metadata; when the handle of the decrypted
\* content differs it raises and writes nothing
C17_WriteOnlyVerified ==
    RunOf("get_doc_file") =>
        /\ run.steps = SubSeq(StepOrder, 1, Len(run.steps))
        /\ run.written.some <=> run.steps = StepOrder
        /\ run.written.some <=> run.exc = None
        /\ run.written.some => Sha256Hex(run.written.content) = run.metadata.file_handle
        /\ Len(run.steps) = 4 => run.exc = "Failed to verify file handle"

C17_Witness ==
    /\ RunOf("get_doc_file") /\ Len(run.steps) = 4
    /\ run.exc = "Failed to verify file handle" /\ ~run.written.some

\* C18: on metadata with a null file_handle rep_get_doc_file raises right after
\* the metadata exchange: no request for the file, nothing written
C18_DocGone ==
    (RunOf("get_doc_file") /\ run.returned /\ run.metadata.file_handle = None) =>
        /\ run.exc # None
        /\ run.steps = <<"metadata">>
        /\ ~run.written.some

C18_Witness ==
    /\ RunOf("get_doc_file") /\ run.returned /\ run.metadata.file_handle = None
    /\ run.exc = "This document does not have a file_handle (probably deleted)"

\* the server's own answer to GET /files/ for the document
ServerAnswer(doc) ==
    Response(200, JsonText(FileAnswer(doc.file_handle, doc.stored), "dumps"),
             Hex(Sign(ServerKey, JsonText(FileAnswer(doc.file_handle, doc.stored), "dumps"))))

\* the document is what rep_add_doc made of the content p
AddedFrom(name, doc, p) ==
    \E n \in NonceBytes :
        doc = StoredDoc(rep_add_doc(name, p, "key of " \o name, [i \in 1..NonceLen |-> n]))

\* the document is what rep_add_doc made of p, with its stored file changed since
ChangedFrom(name, doc, p) ==
    \E n \in NonceBytes, k \in StoredKinds :
        doc = [StoredDoc(rep_add_doc(name, p, "key of " \o name, [i \in 1..NonceLen |-> n]))
                  EXCEPT !.stored = TamperedBytes(@, k)]

\* rep_get_doc_file has run on the metadata and the stored file of the document
Fetched ==
    /\ RunOf("get_doc_file") /\ run.returned
    /\ run.response = ServerAnswer(docs[run.name])

\* C19 as stated: what rep_add_doc made of P gives P back, and a stored file
\* that was changed fails the verification of the handle
C19_TamperFailsHandle ==
    Fetched =>
        \A p \in Plaintexts :
            /\ AddedFrom(run.name, docs[run.name], p) => run.written = Output(p)
            /\ ChangedFrom(run.name, docs[run.name], p) =>
                   run.exc = "Failed to verify file handle"

\* C19, amended: what rep_add_doc made of P gives exactly P back; a stored file
\* that was changed makes rep_get_doc_file raise at the decryption (invalid tag),
\* before the handle is verified, and nothing is written
C19_RoundTrip ==
    Fetched =>
        \A p \in Plaintexts :
            /\ AddedFrom(run.name, docs[run.name], p) =>
                   /\ run.exc = None
                   /\ run.written = Output(p)
                   /\ Sha256Hex(p) = run.metadata.file_handle
            /\ ChangedFrom(run.name, docs[run.name], p) =>
                   /\ run.exc = "Failed to decrypt file: Invalid tag"
                   /\ run.steps = <<"metadata", "blob", "decrypt">>
                   /\ ~run.written.some

C19_Witness ==
    /\ Fetched
    /\ AddedFrom(run.name, docs[run.name], "hello")
    /\ run.written = Output("hello")

----------------------------------------------------------------------------
(* SpecEnvelope: encapsulate_session_data and decapsulate_session_data on     *)
(* every plaintext, session, key and msg_id, against every registry entry     *)

EnvelopePlaintexts == {EmptyDict, [role |-> "managers"], [roles |-> <<"managers">>]}
EnvelopeKeys == {SessionKey(s) : s \in SessionIds}

EnvelopeInputs ==
    [plaintext : EnvelopePlaintexts, session_id : SessionIds, key : EnvelopeKeys,
     msg_id : 0..MaxMsgId,
     registered : BOOLEAN, stored_key : EnvelopeKeys, stored_msg_id : 0..MaxMsgId,
     expiration_date : 0..MaxTime, clock : 0..MaxTime]

\* the registry the envelope is decapsulated against
Registry(i) ==
    IF i.registered
    THEN (i.session_id :> [organization |-> Organization,
                           username |-> SessionUser(i.session_id),
                           derived_key |-> Hex(i.stored_key),
                           msg_id |-> i.stored_msg_id,
                           expiration_date |-> i.expiration_date,
                           roles |-> <<>>])
    ELSE (UnknownSession :> [organization |-> Organization,
                             username |-> SessionUser(i.session_id),
                             derived_key |-> Hex(i.stored_key),
                             msg_id |-> i.stored_msg_id,
                             expiration_date |-> i.expiration_date,
                             roles |-> <<>>])

InitEnvelope ==
    /\ sessions = [s \in SessionIds |->
                      [organization |-> Organization,
                       username |-> SessionUser(s),
                       derived_key |-> Hex(SessionKey(s)),
                       msg_id |-> 0,
                       expiration_date |-> Delta,
                       roles |-> <<>>]]
    /\ subjects = [u \in Usernames |-> "active"]
    /\ now = 0
    /\ nenc = 0
    /\ reqs = {}
    /\ resps = {}
    /\ cfile = NoFile
    /\ cpc = "idle"
    /\ ccmd = NoCmd
    /\ srv = NoSrv
    /\ cli = NoCli
    /\ maxAcc = [s \in SessionIds |-> 0]
    /\ lastAcc = [s \in SessionIds |-> NoAcc]
    /\ run \in {[done |-> FALSE, input |-> i] : i \in EnvelopeInputs}
    /\ docs = NoDocs
    /\ thr = [t \in Threads |-> IdleThread]

\* the envelope is made and, unmodified, decapsulated
EnvelopeRoundTrip ==
    /\ ~run.done
    /\ LET i == run.input
           data == encapsulate_session_data(i.plaintext, i.session_id, Hex(i.key),
                                            i.msg_id, 1)
       IN run' = [done |-> TRUE, cmd |-> "envelope", input |-> i, data |-> data,
                  dec |-> decapsulate_session_data(data, Registry(i), TRUE, i.clock)]
    /\ UNCHANGED <<sessions, subjects, now, nenc, reqs, resps, cfile, cpc, ccmd, srv, cli,
                   maxAcc, lastAcc, docs, thr>>

NextEnvelope == EnvelopeRoundTrip

SpecEnvelope == InitEnvelope /\ [][NextEnvelope]_vars

\* the registry holds the session of the envelope with its key, the session has
\* not expired and its stored msg_id is below the msg_id of the envelope
RoundTripCase ==
    /\ RunOf("envelope")
    /\ run.input.registered
    /\ run.input.stored_key = run.input.key
    /\ run.input.clock <= run.input.expiration_date
    /\ run.input.stored_msg_id < run.input.msg_id

----------------------------------------------------------------------------
(* Claims on the order and the effects of the checks *)

\* the envelope is one a holder of the session key made for this session
SrvAuthentic == srv.kind \in {"sent", "reflected"}

\* the verdict of the first check that fails, in the order session exists, not
\* expired, authentic, fresh
FirstFailing ==
    IF ~SrvKnown THEN "not found"
    ELSE IF SrvExpired THEN "expired"
    ELSE IF ~SrvAuthentic THEN "InvalidTag"
    ELSE IF srv.msg_id <= srv.pre[srv.session_id].msg_id THEN "replay"
    ELSE "none"

\* C21: the server reports the first check that fails, in the order session
\* exists, session not expired, authentication, msg_id freshness; a replay is
\* reported only for a message that authenticated
C21_FirstFailingCheck ==
    srv.handled =>
        /\ srv.verdict = FirstFailing
        /\ srv.verdict = "replay" => SrvAuthentic

C21_Witness ==
    /\ srv.handled /\ srv.kind = "msg_id" /\ ~SrvExpired
    /\ srv.msg_id <= srv.pre[srv.session_id].msg_id
    /\ srv.verdict = "InvalidTag"

\* C22: a request that is to be rejected (unknown or expired session, not
\* authentic, msg_id not fresh) is rejected and leaves the msg_id and the roles
\* of every session as they were
C22_RejectedChangesNothing ==
    srv.handled =>
        /\ FirstFailing # "none" => srv.verdict # "none"
        /\ srv.verdict # "none" =>
              /\ srv.status = 499
              /\ \A s \in SessionIds :
                    /\ sessions[s].msg_id = srv.pre[s].msg_id
                    /\ sessions[s].roles = srv.pre[s].roles

C22_Witness ==
    /\ srv.handled /\ srv.verdict = "replay" /\ srv.kind = "reflected"
    /\ srv.pre[srv.session_id].roles # <<>>
    /\ sessions = srv.pre

\* C23: a request that passes decapsulation and is denied with 403 advances the
\* stored msg_id as a success does; the denial is an envelope under the session
\* key with the advanced msg_id, and the request is from then on a replay
C23_DenialConsumesMsgId ==
    (SrvAccepted /\ srv.status = 403) =>
        /\ sessions[srv.session_id].msg_id = srv.msg_id + 1
        /\ "associated_data" \in DOMAIN srv.body
        /\ Get(srv.body.associated_data, "msg_id") = srv.msg_id + 1
        /\ FromHex(srv.body.encrypted_data.ciphertext).k
               = FromHex(sessions[srv.session_id].derived_key)
        /\ srv.msg_id <= sessions[srv.session_id].msg_id

C23_Witness ==
    /\ SrvAccepted /\ srv.status = 403
    /\ srv.route = "DELETE" /\ subjects[SrvUser] = "active"
    /\ sessions[srv.session_id].msg_id = srv.msg_id + 1

\* C24: the assumed roles of a session change only in a 200 of assume_role or
\* drop_role; an assume_role that is denied leaves them as they were
C24_RolesChangeOnlyOn200 ==
    srv.handled =>
        /\ (\E s \in SessionIds : sessions[s].roles # srv.pre[s].roles) =>
               srv.status = 200 /\ srv.route \in {"POST", "DELETE"}
        /\ (SrvAccepted /\ srv.route = "POST" /\ srv.status # 200) =>
               SrvRolesAfter = SrvRolesBefore

C24_Witness ==
    /\ SrvAccepted /\ srv.route = "POST" /\ srv.role = "finance" /\ srv.status = 403
    /\ SrvRolesBefore = <<"managers">> /\ SrvRolesAfter = <<"managers">>

\* C25: a signed answer is accepted only if the signature is over the very
\* string that was received
C25_ExactBytes ==
    (RunOf("create_session") /\ run.exc = None) =>
        RunSignature.over = run.response.json.associated_data

----------------------------------------------------------------------------
(* Claims on the two counters *)

ServerMsgId == sessions[cfile.session_id].msg_id

\* the client has just accepted a response (status 200 or 403)
Completed == cli.done /\ cli.verdict = "none"

\* C26: after every completed exchange the msg_id of the session file equals the
\* msg_id the server stores for the session, and the msg_id of the client's next
\* request is fresh
C26_CountersInStep ==
    Completed =>
        /\ cli.status \in {200, 403}
        /\ cfile.msg_id = ServerMsgId
        /\ ~IsReplay(NextMsgId(cfile.msg_id), ServerMsgId)

C26_Witness ==
    /\ Completed /\ cli.status = 403 /\ cli.kind = "sent"
    /\ Cardinality(reqs) = 2 /\ cfile.msg_id = 4 /\ ServerMsgId = 4

\* the server has just rejected, as a replay, the request the client is waiting
\* on, which the network delivered as it was sent and whose msg_id is above
\* every msg_id the session has accepted
FreshRejected ==
    /\ srv.handled /\ srv.verdict = "replay" /\ srv.kind = "sent"
    /\ srv.msg_id > srv.preAcc[srv.session_id]
    /\ cpc = "sent" /\ srv.session_id = cfile.session_id
    /\ srv.msg_id = ccmd.msg_id /\ ccmd.msg_id = cfile.msg_id

\* C27: on a network that drops, delays, reorders and replays but does not forge,
\* the msg_id the server stores is at most the msg_id of the session file plus 1;
\* when a fresh request of the client is rejected as a replay, the msg_id of its
\* next request is above the stored one
C27_ServerAtMostOneAhead ==
    /\ ServerMsgId <= cfile.msg_id + 1
    /\ FreshRejected =>
          /\ ServerMsgId = cfile.msg_id
          /\ cfile.msg_id + 1 > ServerMsgId

C27_Witness ==
    /\ FreshRejected /\ srv.msg_id = 2 /\ ServerMsgId = 2
    /\ srv.pre[srv.session_id].msg_id = 2

----------------------------------------------------------------------------
(* Claims on what a route leaves alone *)

\* the fields of a session record that no route writes
Identity(session) ==
    [organization |-> session.organization, username |-> session.username,
     derived_key |-> session.derived_key, expiration_date |-> session.expiration_date]

\* C29: a route changes nothing but the msg_id and the roles of the session it
\* is addressed to, and list_session_roles nothing but the msg_id; a request on a
\* session that has expired is rejected as expired
C29_RoutesFrame ==
    srv.handled =>
        /\ DOMAIN sessions = DOMAIN srv.pre
        /\ \A s \in SessionIds :
              /\ Identity(sessions[s]) = Identity(srv.pre[s])
              /\ s # srv.session_id => sessions[s] = srv.pre[s]
              /\ srv.route = "GET" => sessions[s].roles = srv.pre[s].roles
        /\ (SrvKnown /\ now > sessions[srv.session_id].expiration_date) =>
               srv.verdict = "expired" /\ sessions = srv.pre

C29_Witness ==
    /\ SrvAccepted /\ srv.route = "GET" /\ srv.session_id = 1
    /\ sessions[1].msg_id = 4 /\ srv.pre[1].msg_id = 2
    /\ sessions[1].roles = <<"managers">>
    /\ sessions[2] = srv.pre[2]

----------------------------------------------------------------------------
(* Claims on reflection *)

\* C28: a response of the server that is sent back to the server is never
\* accepted as a request
C28_ReflectionRejected ==
    \A t \in Threads : Busy(t) => thr[t].kind # "reflected"

----------------------------------------------------------------------------
(* Claims on the roles of the session file *)

Elements(list) == {list[i] : i \in 1..Len(list)}

\* every request the client has sent was answered and the answer accepted
NoLoss ==
    /\ cfile.msg_id = 2 * Cardinality(reqs)
    /\ ServerMsgId = cfile.msg_id

\* C30: after the commands of one sequential client, none of them lost, the set
\* of roles in the session file is the set of roles the server holds for the
\* session
C30_RolesMirror ==
    (Completed /\ NoLoss) =>
        Elements(cfile.roles) = Elements(sessions[cfile.session_id].roles)

----------------------------------------------------------------------------
(* Claims on rep_get_file *)

\* rep_get_file has let file content out: returned it, or written it
Released == run.returned.some \/ run.written.some \/ run.stdout.some

\* the answer is a 200 for the requested handle with the server's signature
GoodFileAnswer ==
    /\ run.response.status_code = 200
    /\ HasKeys(RunData, {"file_handle", "file_content"})
    /\ Get(RunData, "file_handle") = run.file_handle
    /\ RunSignature.by = ServerKey
    /\ RunSignature.over = JsonText(RunData, "dumps")

\* C31: rep_get_file returns or writes file content only on a 200 that carries
\* the requested file_handle and the server's signature; otherwise it raises and
\* writes nothing; what it lets out is the content of the answer
C31_ReleaseOnlyVerified ==
    RunOf("get_file") =>
        /\ Released => GoodFileAnswer /\ run.exc = None
        /\ ~GoodFileAnswer => run.exc # None /\ ~Released
        /\ \A o \in {run.returned, run.written, run.stdout} :
              o.some => o.content = B64Decode(Get(RunData, "file_content"))
        /\ run.written.some => run.output /\ run.file # None
        /\ run.stdout.some => run.output /\ run.file = None

C31_Witness ==
    /\ RunOf("get_file") /\ run.exc = None
    /\ run.output /\ run.file = "out"
    /\ run.written = Output(<<7>>) /\ ~run.stdout.some

----------------------------------------------------------------------------
(* SpecKey: the long-term key of the client is derived from a password by      *)
(* rep_subject_credentials and by rep_create_session                           *)

\* the order n of the group of EC_CURVE, and the passwords, scaled down
CurveOrder == 7
MaxPasswordLen == 2
PasswordBytes == {0, 1, 6, 7}

RECURSIVE SeqsUpTo(_, _)
SeqsUpTo(S, n) ==
    IF n = 0 THEN {<<>>}
    ELSE LET shorter == SeqsUpTo(S, n - 1)
         IN shorter \cup {Append(q, b) : q \in {x \in shorter : Len(x) = n - 1}, b \in S}

Passwords == SeqsUpTo(PasswordBytes, MaxPasswordLen)

\* "int.from_bytes(password.encode(), 'big')"
RECURSIVE IntFromBytes(_)
IntFromBytes(bytes) ==
    IF bytes = <<>> THEN 0
    ELSE 256 * IntFromBytes(SubSeq(bytes, 1, Len(bytes) - 1)) + bytes[Len(bytes)]

\* the library as it is built: whether it takes a scalar that is not below n
Builds == {"takes any scalar", "wants a scalar below n"}

ValueError == [error |-> "ValueError"]
PrivateKey(private_value) ==
    [error |-> None, private_value |-> private_value,
     public |-> private_value % CurveOrder]

\* ec.derive_private_key(private_value, EC_CURVE, default_backend()): a
\* ValueError for a value that is not positive or whose point is the point at
\* infinity, and for a value not below n where the build wants one
derive_private_key(private_value, build) ==
    IF private_value <= 0 THEN ValueError
    ELSE IF private_value % CurveOrder = 0 THEN ValueError
    ELSE IF private_value >= CurveOrder /\ build = "wants a scalar below n" THEN ValueError
    ELSE PrivateKey(private_value)

\* the PEM of the public key of a private key
PublicPem(private_key) == [pem |-> private_key.public]

NotRun == [ran |-> FALSE]

InitKey ==
    /\ sessions = [s \in SessionIds |->
                      [organization |-> Organization,
                       username |-> SessionUser(s),
                       derived_key |-> Hex(SessionKey(s)),
                       msg_id |-> 0,
                       expiration_date |-> Delta,
                       roles |-> <<>>]]
    /\ subjects = [u \in Usernames |-> "active"]
    /\ now = 0
    /\ nenc = 0
    /\ reqs = {}
    /\ resps = {}
    /\ cfile = NoFile
    /\ cpc = "idle"
    /\ ccmd = NoCmd
    /\ srv = NoSrv
    /\ cli = NoCli
    /\ maxAcc = [s \in SessionIds |-> 0]
    /\ lastAcc = [s \in SessionIds |-> NoAcc]
    /\ run \in {[done |-> FALSE, password |-> p, build |-> b,
                 credentials |-> NotRun, session |-> NotRun]
                   : p \in Passwords, b \in Builds}
    /\ docs = NoDocs
    /\ thr = [t \in Threads |-> IdleThread]

\* Local.rep_subject_credentials: the public key of the derived key is written
\* to the credentials file
SubjectCredentials ==
    /\ ~run.credentials.ran
    /\ LET password_int == IntFromBytes(run.password)
           private_key == derive_private_key(password_int, run.build)
       IN run' = [run EXCEPT !.credentials =
                     IF private_key = ValueError
                     THEN [ran |-> TRUE, exc |-> Raised("ValueError"), file |-> NoOutput]
                     ELSE [ran |-> TRUE, exc |-> Returned,
                           file |-> Output(PublicPem(private_key))]]
    /\ UNCHANGED <<sessions, subjects, now, nenc, reqs, resps, cfile, cpc, ccmd, srv, cli,
                   maxAcc, lastAcc, docs, thr>>

\* Auth.rep_create_session: the key is derived, then the command goes on with
\* the request and the answer
CreateSessionWithPassword(response) ==
    /\ ~run.session.ran
    /\ LET password_int == IntFromBytes(run.password)
           client_private_key == derive_private_key(password_int, run.build)
       IN IF client_private_key = ValueError
          THEN /\ run' = [run EXCEPT !.session =
                             [ran |-> TRUE, exc |-> Raised("ValueError"),
                              key |-> ValueError]]
               /\ UNCHANGED cfile
          ELSE LET r == rep_create_session(Organization, "alice", "ce", response, cfile)
               IN /\ cfile' = r.file
                  /\ run' = [run EXCEPT !.session =
                                [ran |-> TRUE, exc |-> r.exc, key |-> client_private_key]]
    /\ UNCHANGED <<sessions, subjects, now, nenc, reqs, resps, cpc, ccmd, srv, cli,
                   maxAcc, lastAcc, docs, thr>>

NextKey ==
    \/ SubjectCredentials
    \/ \E r \in SessionResponses : CreateSessionWithPassword(r)

SpecKey == InitKey /\ [][NextKey]_vars

\* the scalar the password stands for: "k = int(password_bytes, big-endian) mod n"
ScalarModN == IntFromBytes(run.password) % CurveOrder

\* C32: for every password both commands derive a valid key whose scalar is
\* int(password_bytes, big-endian) mod n, also when the integer is 0 or not
\* below n, and both derive the same key
C32_ScalarModN ==
    /\ run.credentials.ran =>
          /\ run.credentials.exc = None
          /\ run.credentials.file = Output([pem |-> ScalarModN])
    /\ run.session.ran =>
          /\ run.session.key # ValueError
          /\ run.session.key.public = ScalarModN
    /\ (run.credentials.ran /\ run.session.ran) =>
          /\ (run.credentials.exc = None) = (run.session.key # ValueError)
          /\ run.session.key # ValueError =>
                run.credentials.file = Output(PublicPem(run.session.key))

----------------------------------------------------------------------------
(* SpecPerm: rep_add_permission and rep_remove_permission run one after the    *)
(* other on the session file of the client                                     *)

\* "PERMISSIONS = {...}"
PERMISSIONS ==
    {"ROLE_NEW", "ROLE_DOWN", "ROLE_UP", "ROLE_MOD", "ROLE_ACL",
     "SUBJECT_NEW", "SUBJECT_DOWN", "SUBJECT_UP", "DOC_NEW"}

\* the Permission enum: the administrative and the document-scoped permissions
AdministrativePermissions ==
    {"ROLE_NEW", "ROLE_DOWN", "ROLE_UP", "ROLE_MOD", "ROLE_ACL",
     "SUBJECT_NEW", "SUBJECT_DOWN", "SUBJECT_UP", "DOC_NEW"}
DocumentPermissions == {"DOC_ACL", "DOC_READ", "DOC_DELETE"}
PermissionEnum == AdministrativePermissions \cup DocumentPermissions

PermissionsEndpoint == "/api/v1/organizations/roles/permissions"
SubjectsEndpoint == "/api/v1/organizations/roles/subjects"

\* Organization.rep_add_permission up to send_session_data: what it sends
rep_add_permission(role, permissionOrUsername) ==
    IF permissionOrUsername \in PERMISSIONS
    THEN [command |-> "post", endpoint |-> PermissionsEndpoint,
          plaintext |-> [role |-> role, permission |-> permissionOrUsername]]
    ELSE [command |-> "post", endpoint |-> SubjectsEndpoint,
          plaintext |-> [role |-> role, username |-> permissionOrUsername]]

\* Organization.rep_remove_permission up to send_session_data: what it sends
rep_remove_permission(role, permissionOrUsername) ==
    IF permissionOrUsername \in PERMISSIONS
    THEN [command |-> "delete", endpoint |-> PermissionsEndpoint,
          plaintext |-> [role |-> role, permission |-> permissionOrUsername]]
    ELSE [command |-> "delete", endpoint |-> SubjectsEndpoint,
          plaintext |-> [role |-> role, username |-> permissionOrUsername]]

\* the role and the last argument of the two commands
PermissionRoles == {"managers", "ghost"}
PermissionArguments == PermissionEnum \cup Usernames

\* what comes back for the request: nothing, a 499, or the envelope of the
\* server with the next msg_id and a status
PermissionAnswers(msg_id) ==
         {[kind |-> "lost", status |-> 0, body |-> [text |-> "error"]],
          [kind |-> "sent", status |-> 499, body |-> [text |-> "error"]]}
    \cup {[kind |-> "sent", status |-> st,
           body |-> encapsulate_session_data([state |-> "done"], cfile.session_id,
                                             cfile.derived_key, msg_id + 1,
                                             2 * (msg_id + 1))]
             : st \in {200, 403}}

\* send_session_data(command, endpoint, session_file, plaintext) with the answer
\* it gets: the request, the session file afterwards and the exception
SendSessionData(sel, answer) ==
    LET msg_id == NextMsgId(cfile.msg_id)
        data == encapsulate_session_data(sel.plaintext, cfile.session_id,
                                         cfile.derived_key, msg_id, 2 * msg_id + 1)
        sent == [cfile EXCEPT !.msg_id = msg_id]
        v == IF answer.kind = "lost" THEN "connection"
             ELSE ResponseVerdict(answer.status, answer.body, sent)
    IN [request |-> [route |-> sel.command, endpoint |-> sel.endpoint, data |-> data],
        file |-> [sent EXCEPT !.msg_id = FileMsgIdAfter(v, answer.body, msg_id)],
        exc |-> IF v = "none" /\ answer.status = 200 THEN Returned ELSE Raised(v)]

\* a permission command runs
PermissionCommand(cmd, sel, role, arg, answer) ==
    /\ ~run.done
    /\ Cardinality(reqs) < MaxSends
    /\ LET res == SendSessionData(sel, answer)
       IN /\ reqs' = reqs \cup {res.request}
          /\ cfile' = res.file
          /\ run' = [done |-> TRUE, cmd |-> cmd, role |-> role, arg |-> arg,
                     request |-> res.request, exc |-> res.exc, before |-> cfile]
    /\ UNCHANGED <<sessions, subjects, now, nenc, resps, cpc, ccmd, srv, cli,
                   maxAcc, lastAcc, docs, thr>>

AddPermission(role, arg, answer) ==
    PermissionCommand("add_permission", rep_add_permission(role, arg), role, arg, answer)

RemovePermission(role, arg, answer) ==
    PermissionCommand("remove_permission", rep_remove_permission(role, arg), role, arg,
                      answer)

NextPerm ==
    \/ \E role \in PermissionRoles, arg \in PermissionArguments :
           \E a \in PermissionAnswers(NextMsgId(cfile.msg_id)) : AddPermission(role, arg, a)
    \/ \E role \in PermissionRoles, arg \in PermissionArguments :
           \E a \in PermissionAnswers(NextMsgId(cfile.msg_id)) : RemovePermission(role, arg, a)
    \/ CmdExit

SpecPerm == Init /\ [][NextPerm]_vars

\* the plaintext of the request the command has sent
SentPlaintext == json_loads(FromHex(run.request.data.encrypted_data.ciphertext).p)

\* C33: the two commands send {role, permission} to the permissions endpoint
\* for every argument that is a name of the Permission enum, and {role, username}
\* to the subjects endpoint for every other argument
C33_PermissionOrSubject ==
    (run.done /\ run.cmd \in {"add_permission", "remove_permission"}) =>
        /\ run.request.route = IF run.cmd = "add_permission" THEN "post" ELSE "delete"
        /\ IF run.arg \in PermissionEnum
           THEN /\ run.request.endpoint = PermissionsEndpoint
                /\ SentPlaintext = [role |-> run.role, permission |-> run.arg]
           ELSE /\ run.request.endpoint = SubjectsEndpoint
                /\ SentPlaintext = [role |-> run.role, username |-> run.arg]

====
